---------------------------- MODULE Spec2Model ----------------------------
(***************************************************************************)
(* Flight Computer: flight_physics.py (aerodynamic primitives and the six  *)
(* classifier algorithms) and the refresh loop of flight_gui.py.           *)
(*                                                                         *)
(* Python floats are modelled as decimal floating-point numbers            *)
(* [m |-> mantissa, e |-> exponent], value m * 10^e, with a four-digit     *)
(* mantissa (1000 <= |m| <= 9999, or m = 0 and e = 0) and rounding to      *)
(* nearest after every operation, as IEEE doubles round after every        *)
(* operation to 53 bits.  A raised exception is modelled as the record     *)
(* [raised |-> its name], which every operation and caller passes on.      *)
(***************************************************************************)
EXTENDS Integers, Sequences, FiniteSets, TLC

VARIABLES
    module,     \* flight_physics module globals (the aircraft constants)
    state,      \* flight_gui.state, the parameter set of the display loop
    results,    \* the six classifier results of the current tick (the labels)
    pc,         \* the display loop: "scheduled" (root.after pending) or "running"
    call        \* a direct call of a flight_physics function: fn, args, ret

vars == <<module, state, results, pc, call>>

---------------------------------------------------------------------------
(* Python float arithmetic *)

Pow10(k) ==
    <<1, 10, 100, 1000, 10000, 100000, 1000000, 10000000, 100000000, 1000000000>>[k + 1]

IntAbs(n) == IF n < 0 THEN -n ELSE n

IntSign(n) == IF n < 0 THEN -1 ELSE IF n = 0 THEN 0 ELSE 1

NumDigits(a) ==
    IF a < 10 THEN 1 ELSE IF a < 100 THEN 2 ELSE IF a < 1000 THEN 3
    ELSE IF a < 10000 THEN 4 ELSE IF a < 100000 THEN 5 ELSE IF a < 1000000 THEN 6
    ELSE IF a < 10000000 THEN 7 ELSE IF a < 100000000 THEN 8
    ELSE IF a < 1000000000 THEN 9 ELSE 10

Zero == [m |-> 0, e |-> 0]

\* a (d digits, d > 4) rounded to four digits: sign * round(a / 10^k) * 10^(e + k).
Rounded(sign, r, e) ==
    IF r = 10000 THEN [m |-> sign * 1000, e |-> e + 1] ELSE [m |-> sign * r, e |-> e]

Normalized(n, e, d) ==
    IF d <= 4
    THEN [m |-> n * Pow10(4 - d), e |-> e - (4 - d)]
    ELSE Rounded(IntSign(n), (IntAbs(n) + (Pow10(d - 4) \div 2)) \div Pow10(d - 4),
                 e + (d - 4))

\* The float nearest to n * 10^e.
Float(n, e) == IF n = 0 THEN Zero ELSE Normalized(n, e, NumDigits(IntAbs(n)))

\* math.inf
Inf == [m |-> 1, e |-> 999]

IsInf(x) == x = Inf

\* Exceptions, as the values a raising call yields.
ValueError == [raised |-> "ValueError"]

ZeroDivisionError == [raised |-> "ZeroDivisionError"]

IsException(x) == "raised" \in DOMAIN x

Neg(x) == IF IsException(x) THEN x ELSE [m |-> -x.m, e |-> x.e]

Mul(x, y) ==
    IF IsException(x) THEN x
    ELSE IF IsException(y) THEN y
    ELSE Float(x.m * y.m, x.e + y.e)

\* hi + lo for hi.e >= lo.e: lo is lost when it is below hi's last digit.
AddAligned(hi, lo) ==
    IF hi.e - lo.e > 5 THEN hi
    ELSE Float(hi.m * Pow10(hi.e - lo.e) + lo.m, lo.e)

Add(x, y) ==
    IF IsException(x) THEN x
    ELSE IF IsException(y) THEN y
    ELSE IF x.m = 0 THEN y
    ELSE IF y.m = 0 THEN x
    ELSE IF x.e >= y.e THEN AddAligned(x, y)
    ELSE AddAligned(y, x)

Sub(x, y) == Add(x, Neg(y))

\* x / y: ZeroDivisionError when y is 0.
TrueDiv(x, y) ==
    IF IsException(x) THEN x
    ELSE IF IsException(y) THEN y
    ELSE IF y.m = 0 THEN ZeroDivisionError
    ELSE Float(IntSign(x.m) * IntSign(y.m) * ((IntAbs(x.m) * Pow10(5)) \div IntAbs(y.m)),
               x.e - y.e - 5)

\* x < y, on normalized floats (and Inf, above every finite float).
Lt(x, y) ==
    IF x.m > 0 /\ y.m > 0 THEN x.e < y.e \/ (x.e = y.e /\ x.m < y.m)
    ELSE IF x.m < 0 /\ y.m < 0 THEN x.e > y.e \/ (x.e = y.e /\ x.m < y.m)
    ELSE x.m < y.m

Le(x, y) == ~Lt(y, x)

Gt(x, y) == Lt(y, x)

Ge(x, y) == ~Lt(x, y)

\* abs(x), max(a, b), min(a, b): the builtins.
abs(x) == [m |-> IntAbs(x.m), e |-> x.e]

max(a, b) == IF Gt(b, a) THEN b ELSE a

min(a, b) == IF Lt(b, a) THEN b ELSE a

RECURSIVE IntSqrtFrom(_, _)
IntSqrtFrom(n, r) ==
    IF (r + n \div r) \div 2 >= r THEN r ELSE IntSqrtFrom(n, (r + n \div r) \div 2)

\* floor of the square root of n >= 0 (Newton's iteration from above).
IntSqrt(n) == IF n < 2 THEN n ELSE IntSqrtFrom(n, n \div 2 + 1)

\* math.sqrt: ValueError ("math domain error") for a negative argument.
math_sqrt(x) ==
    IF IsException(x) THEN x
    ELSE IF x.m < 0 THEN ValueError
    ELSE IF x.m = 0 THEN Zero
    ELSE Float(IntSqrt(x.m * Pow10(4 + (x.e % 2))), (x.e - 4 - (x.e % 2)) \div 2)

\* x * 10^4 truncated to an integer: x in units of 1e-4.
ToFixed(x) ==
    IF x.e + 4 >= 0 THEN x.m * Pow10(x.e + 4)
    ELSE IF -(x.e + 4) > 9 THEN 0
    ELSE IntSign(x.m) * (IntAbs(x.m) \div Pow10(-(x.e + 4)))

\* An angle in units of 1e-4 rad brought into [-pi, pi) (2*pi = 6.2832).
ReduceAngle(X) == ((X + 31416) % 62832) - 31416

\* R in [-pi, pi) folded into [-pi/2, pi/2] by the reflection r -> +-pi - r, which
\* keeps the sine and flips the cosine.
FoldReduced(R) ==
    [r |-> Float(IF R > 15708 THEN 31416 - R ELSE IF R < -15708 THEN -31416 - R ELSE R, -4),
     flip |-> IntAbs(R) > 15708]

FoldFixed(x, X) ==
    IF IntAbs(X) <= 15708 THEN [r |-> x, flip |-> FALSE] ELSE FoldReduced(ReduceAngle(X))

Fold(x) == FoldFixed(x, ToFixed(x))

\* sum + the terms of an alternating Taylor series that follow term:
\* each is the one before times -r2 / (k * (k + 1)), up to k = last.
RECURSIVE Series(_, _, _, _, _)
RECURSIVE SeriesAdd(_, _, _, _, _)
Series(sum, term, r2, k, last) ==
    IF k > last THEN sum
    ELSE SeriesAdd(sum, TrueDiv(Mul(term, r2), Float(-(k * (k + 1)), 0)), r2, k, last)

SeriesAdd(sum, term, r2, k, last) == Series(Add(sum, term), term, r2, k + 2, last)

\* sin r = r - r^3/3! + ... + r^9/9! and cos r = 1 - r^2/2! + ... - r^10/10!, |r| <= pi/2.
SinSeries(r) == Series(r, r, Mul(r, r), 2, 8)

CosSeries(r) == Series(Float(1, 0), Float(1, 0), Mul(r, r), 1, 9)

NegIf(flip, x) == IF flip THEN Neg(x) ELSE x

CosFolded(a) == NegIf(a.flip, CosSeries(a.r))

math_sin(x) == SinSeries(Fold(x).r)

math_cos(x) == CosFolded(Fold(x))

\* math.tan never raises for a finite argument: cos(x) is not 0 for any float x.
math_tan(x) == TrueDiv(math_sin(x), math_cos(x))

\* math.radians(x) = x * (pi / 180)
math_radians(x) == Mul(x, Float(1745, -5))

---------------------------------------------------------------------------
(* flight_physics.py: constants *)

\* The module globals right after import.
FlightPhysics ==
    [AIR_DENSITY |-> Float(1225, -3),
     GRAVITY |-> Float(981, -2),
     WING_AREA |-> Float(30, 0),
     AIRCRAFT_MASS |-> Float(5000, 0),
     LIFT_COEFFICIENT_ZERO |-> Float(25, -2),
     LIFT_COEFFICIENT_ALPHA |-> Float(10, -2),
     LIFT_COEFFICIENT_MAX |-> Float(16, -1),
     DRAG_COEFFICIENT_ZERO |-> Float(2, -2),
     INDUCED_DRAG_FACTOR |-> Float(45, -3),
     MAX_THRUST |-> Float(20000, 0)]

AIR_DENSITY == module.AIR_DENSITY

GRAVITY == module.GRAVITY

WING_AREA == module.WING_AREA

AIRCRAFT_MASS == module.AIRCRAFT_MASS

LIFT_COEFFICIENT_ZERO == module.LIFT_COEFFICIENT_ZERO

LIFT_COEFFICIENT_ALPHA == module.LIFT_COEFFICIENT_ALPHA

LIFT_COEFFICIENT_MAX == module.LIFT_COEFFICIENT_MAX

DRAG_COEFFICIENT_ZERO == module.DRAG_COEFFICIENT_ZERO

INDUCED_DRAG_FACTOR == module.INDUCED_DRAG_FACTOR

---------------------------------------------------------------------------
(* flight_physics.py: helper physics functions *)

\* Mutant: the lift coefficient clamped to LIFT_COEFFICIENT_MAX.
calculate_lift_coefficient_clamped(angle_of_attack_deg, flap_angle_deg) ==
    min(LIFT_COEFFICIENT_MAX,
        Add(Add(LIFT_COEFFICIENT_ZERO, Mul(LIFT_COEFFICIENT_ALPHA, angle_of_attack_deg)),
            Mul(Float(1, -2), flap_angle_deg)))

calculate_lift_coefficient(angle_of_attack_deg, flap_angle_deg) ==
    Add(Add(LIFT_COEFFICIENT_ZERO, Mul(LIFT_COEFFICIENT_ALPHA, angle_of_attack_deg)),
        Mul(Float(1, -2), flap_angle_deg))

calculate_lift(velocity_mps, lift_coefficient) ==
    Mul(Mul(Mul(Mul(Float(5, -1), AIR_DENSITY), Mul(velocity_mps, velocity_mps)),
            WING_AREA),
        lift_coefficient)

calculate_drag_coefficient(lift_coefficient) ==
    Add(DRAG_COEFFICIENT_ZERO,
        Mul(INDUCED_DRAG_FACTOR, Mul(lift_coefficient, lift_coefficient)))

calculate_drag(velocity_mps, drag_coefficient) ==
    Mul(Mul(Mul(Mul(Float(5, -1), AIR_DENSITY), Mul(velocity_mps, velocity_mps)),
            WING_AREA),
        drag_coefficient)

calculate_weight == Mul(AIRCRAFT_MASS, GRAVITY)

calculate_stall_speed_for_clean_configuration ==
    LET weight == calculate_weight
    IN  math_sqrt(TrueDiv(Mul(Float(2, 0), weight),
                          Mul(Mul(AIR_DENSITY, WING_AREA), LIFT_COEFFICIENT_MAX)))

\* Mutant: the wings-level test taken as |bank| <= 1e-6.
calculate_turn_radius_inclusive(velocity_mps, bank_angle_deg) ==
    IF Le(abs(bank_angle_deg), Float(1, -6)) THEN Inf
    ELSE LET bank_radians == math_radians(bank_angle_deg)
         IN  TrueDiv(Mul(velocity_mps, velocity_mps),
                     Mul(GRAVITY, math_tan(bank_radians)))

calculate_turn_radius(velocity_mps, bank_angle_deg) ==
    IF Lt(abs(bank_angle_deg), Float(1, -6)) THEN Inf
    ELSE LET bank_radians == math_radians(bank_angle_deg)
         IN  TrueDiv(Mul(velocity_mps, velocity_mps),
                     Mul(GRAVITY, math_tan(bank_radians)))

calculate_load_factor(bank_angle_deg) ==
    LET bank_radians == math_radians(bank_angle_deg)
    IN  TrueDiv(Float(1, 0), math_cos(bank_radians))

---------------------------------------------------------------------------
(* flight_physics.py: algorithm functions *)

\* Mutant: airborne from altitude 0.1 on (>= instead of >).
takeoff_algorithm_airborne_at_threshold(velocity_mps, altitude_m, angle_of_attack_deg, flap_angle_deg) ==
    LET lift_coefficient == calculate_lift_coefficient(angle_of_attack_deg, flap_angle_deg)
        lift_force == calculate_lift(velocity_mps, lift_coefficient)
        weight_newtons == calculate_weight
        status ==
            IF Ge(altitude_m, Float(1, -1)) /\ Ge(lift_force, weight_newtons)
            THEN "AIRBORNE"
            ELSE IF Ge(lift_force, weight_newtons) /\ Le(altitude_m, Float(1, -1))
            THEN "TAKEOFF READY (ROTATE)"
            ELSE "ROLLING"
    IN  [algorithm |-> "TAKEOFF ALGORITHM",
         status |-> status,
         lift_newtons |-> lift_force,
         weight_newtons |-> weight_newtons,
         lift_coefficient |-> lift_coefficient]

takeoff_algorithm(velocity_mps, altitude_m, angle_of_attack_deg, flap_angle_deg) ==
    LET lift_coefficient == calculate_lift_coefficient(angle_of_attack_deg, flap_angle_deg)
        lift_force == calculate_lift(velocity_mps, lift_coefficient)
        weight_newtons == calculate_weight
        status ==
            IF Gt(altitude_m, Float(1, -1)) /\ Ge(lift_force, weight_newtons)
            THEN "AIRBORNE"
            ELSE IF Ge(lift_force, weight_newtons) /\ Le(altitude_m, Float(1, -1))
            THEN "TAKEOFF READY (ROTATE)"
            ELSE "ROLLING"
    IN  [algorithm |-> "TAKEOFF ALGORITHM",
         status |-> status,
         lift_newtons |-> lift_force,
         weight_newtons |-> weight_newtons,
         lift_coefficient |-> lift_coefficient]

\* Mutant: the final zone tested before touchdown.
landing_algorithm_final_first(velocity_mps, altitude_m, thrust_newtons, angle_of_attack_deg, flap_angle_deg) ==
    LET lift_coefficient == calculate_lift_coefficient(angle_of_attack_deg, flap_angle_deg)
        drag_coefficient == calculate_drag_coefficient(lift_coefficient)
        drag_force == calculate_drag(velocity_mps, drag_coefficient)
        approach_condition ==
            Lt(altitude_m, Float(200, 0)) /\ Lt(velocity_mps, Float(55, 0))
        final_condition ==
            Le(altitude_m, Float(10, 0)) /\ Le(velocity_mps, Float(167, -1))
        touchdown_condition == final_condition /\ Ge(drag_force, thrust_newtons)
        status ==
            IF final_condition THEN "FINAL"
            ELSE IF touchdown_condition THEN "TOUCHDOWN"
            ELSE IF approach_condition THEN "APPROACH"
            ELSE "NOT LANDING"
    IN  [algorithm |-> "LANDING ALGORITHM",
         status |-> status,
         drag_newtons |-> drag_force,
         thrust_newtons |-> thrust_newtons]

landing_algorithm(velocity_mps, altitude_m, thrust_newtons, angle_of_attack_deg, flap_angle_deg) ==
    LET lift_coefficient == calculate_lift_coefficient(angle_of_attack_deg, flap_angle_deg)
        drag_coefficient == calculate_drag_coefficient(lift_coefficient)
        drag_force == calculate_drag(velocity_mps, drag_coefficient)
        approach_condition ==
            Lt(altitude_m, Float(200, 0)) /\ Lt(velocity_mps, Float(55, 0))
        final_condition ==
            Le(altitude_m, Float(10, 0)) /\ Le(velocity_mps, Float(167, -1))
        touchdown_condition == final_condition /\ Ge(drag_force, thrust_newtons)
        status ==
            IF touchdown_condition THEN "TOUCHDOWN"
            ELSE IF final_condition THEN "FINAL"
            ELSE IF approach_condition THEN "APPROACH"
            ELSE "NOT LANDING"
    IN  [algorithm |-> "LANDING ALGORITHM",
         status |-> status,
         drag_newtons |-> drag_force,
         thrust_newtons |-> thrust_newtons]

stall_algorithm(velocity_mps, angle_of_attack_deg, bank_angle_deg, flap_angle_deg) ==
    LET base_stall_speed == calculate_stall_speed_for_clean_configuration
        flap_cl_adjustment == Mul(Float(1, -2), flap_angle_deg)
        effective_cl_max == Add(LIFT_COEFFICIENT_MAX, flap_cl_adjustment)
        weight_newtons == calculate_weight
        stall_speed_with_flaps ==
            math_sqrt(TrueDiv(Mul(Float(2, 0), weight_newtons),
                              Mul(Mul(AIR_DENSITY, WING_AREA), effective_cl_max)))
        load_factor == calculate_load_factor(bank_angle_deg)
        stall_speed_in_turn == Mul(stall_speed_with_flaps, math_sqrt(load_factor))
        stall_by_aoa == Ge(angle_of_attack_deg, Float(15, 0))
        stall_by_speed == Le(velocity_mps, stall_speed_in_turn)
        stall_flag == stall_by_aoa \/ stall_by_speed
    IN  IF IsException(base_stall_speed) THEN base_stall_speed
        ELSE IF IsException(stall_speed_with_flaps) THEN stall_speed_with_flaps
        ELSE IF IsException(stall_speed_in_turn) THEN stall_speed_in_turn
        ELSE [algorithm |-> "STALL ALGORITHM",
              stall |-> stall_flag,
              stall_speed_clean_mps |-> base_stall_speed,
              stall_speed_with_flaps_mps |-> stall_speed_with_flaps,
              stall_speed_in_turn_mps |-> stall_speed_in_turn,
              angle_of_attack_deg |-> angle_of_attack_deg]

\* Mutant: the altitude compared with the target itself, without the 5 m deadband.
inflight_algorithm_no_deadband(velocity_mps, altitude_m, angle_of_attack_deg, flap_angle_deg, target_altitude_m, thrust_newtons) ==
    LET lift_coefficient == calculate_lift_coefficient(angle_of_attack_deg, flap_angle_deg)
        lift_force == calculate_lift(velocity_mps, lift_coefficient)
        weight_newtons == calculate_weight
        mode ==
            IF Lt(lift_force, weight_newtons) /\ Lt(altitude_m, target_altitude_m)
            THEN "CLIMB"
            ELSE IF Gt(lift_force, weight_newtons) /\ Gt(altitude_m, target_altitude_m)
            THEN "DESCEND"
            ELSE "CRUISE"
    IN  [algorithm |-> "IN-FLIGHT ALGORITHM",
         mode |-> mode,
         lift_newtons |-> lift_force,
         weight_newtons |-> weight_newtons]

inflight_algorithm(velocity_mps, altitude_m, angle_of_attack_deg, flap_angle_deg, target_altitude_m, thrust_newtons) ==
    LET lift_coefficient == calculate_lift_coefficient(angle_of_attack_deg, flap_angle_deg)
        lift_force == calculate_lift(velocity_mps, lift_coefficient)
        weight_newtons == calculate_weight
        mode ==
            IF Lt(lift_force, weight_newtons)
               /\ Lt(altitude_m, Sub(target_altitude_m, Float(5, 0)))
            THEN "CLIMB"
            ELSE IF Gt(lift_force, weight_newtons)
                    /\ Gt(altitude_m, Add(target_altitude_m, Float(5, 0)))
            THEN "DESCEND"
            ELSE "CRUISE"
    IN  [algorithm |-> "IN-FLIGHT ALGORITHM",
         mode |-> mode,
         lift_newtons |-> lift_force,
         weight_newtons |-> weight_newtons]

turn_algorithm(velocity_mps, bank_angle_deg) ==
    LET radius == calculate_turn_radius(velocity_mps, bank_angle_deg)
        load_factor ==
            IF Gt(abs(bank_angle_deg), Float(1, -6))
            THEN calculate_load_factor(bank_angle_deg)
            ELSE Float(1, 0)
    IN  IF IsException(radius) THEN radius
        ELSE IF IsException(load_factor) THEN load_factor
        ELSE [algorithm |-> "TURN ALGORITHM",
              turn_radius_m |-> radius,
              load_factor |-> load_factor]

\* Mutant: HOLD only for |error| < 2.
altitude_hold_algorithm_strict(altitude_m, target_altitude_m, proportional_gain) ==
    LET error_m == Sub(target_altitude_m, altitude_m)
        commanded_climb_rate_mps ==
            max(Float(-10, 0), min(Float(10, 0), Mul(proportional_gain, error_m)))
        command ==
            IF Lt(abs(error_m), Float(2, 0)) THEN "HOLD"
            ELSE IF commanded_climb_rate_mps.m > 0 THEN "CLIMB"
            ELSE "DESCEND"
    IN  [algorithm |-> "ALTITUDE HOLD ALGORITHM",
         command |-> command,
         commanded_climb_rate_mps |-> commanded_climb_rate_mps,
         altitude_error_m |-> error_m]

\* Mutant: the commanded climb rate left unclamped.
altitude_hold_algorithm_unclamped(altitude_m, target_altitude_m, proportional_gain) ==
    LET error_m == Sub(target_altitude_m, altitude_m)
        commanded_climb_rate_mps == Mul(proportional_gain, error_m)
        command ==
            IF Le(abs(error_m), Float(2, 0)) THEN "HOLD"
            ELSE IF commanded_climb_rate_mps.m > 0 THEN "CLIMB"
            ELSE "DESCEND"
    IN  [algorithm |-> "ALTITUDE HOLD ALGORITHM",
         command |-> command,
         commanded_climb_rate_mps |-> commanded_climb_rate_mps,
         altitude_error_m |-> error_m]

altitude_hold_algorithm(altitude_m, target_altitude_m, proportional_gain) ==
    LET error_m == Sub(target_altitude_m, altitude_m)
        commanded_climb_rate_mps ==
            max(Float(-10, 0), min(Float(10, 0), Mul(proportional_gain, error_m)))
        command ==
            IF Le(abs(error_m), Float(2, 0)) THEN "HOLD"
            ELSE IF commanded_climb_rate_mps.m > 0 THEN "CLIMB"
            ELSE "DESCEND"
    IN  [algorithm |-> "ALTITUDE HOLD ALGORITHM",
         command |-> command,
         commanded_climb_rate_mps |-> commanded_climb_rate_mps,
         altitude_error_m |-> error_m]

---------------------------------------------------------------------------
(* Direct calls of the library: the inputs are drawn in Init, each action *)
(* applies one function to them.                                          *)

Velocities == {Float(n, -1) : n \in {-100, 0, 150, 167, 170, 500, 550, 700, 800}}

Altitudes == {Float(n, -1) : n \in {0, 1, 2, 50, 100, 110, 1500, 2000, 5000}}

AltitudesNearTarget ==
    {Float(n, 0) : n \in {0, 990, 994, 995, 996, 997, 998, 999, 1000, 1001, 1002, 1003,
                          1004, 1005, 1006, 1010, 2000, 3000}}

TargetAltitudes == {Float(1000, 0), Float(2000, 0)}

AnglesOfAttack == {Float(n, -1) : n \in {-50, -25, 0, 20, 100, 149, 150, 160}}

FlapAngles == {Float(0, 0), Float(10, 0)}

BankAngles ==
    {Float(n, -7) : n \in {0, 5, -5, 10, -10, 20, -20}}
    \cup {Float(n, 0) : n \in {12, -12, 45, -60, 120, -120}}

Thrusts == {Float(n, 0) : n \in {0, 100, 500, 12000}}

Gains == {Float(n, -3) : n \in {400, 0, -400, 2000, 1}}

LiftCoefficients == {Float(n, -2) : n \in {-25, 0, 45, 175, 185}}

DragCoefficients == {Float(n, -3) : n \in {20, 29, 174}}

Pending == [pending |-> TRUE]

NoCall == [fn |-> "none", args |-> <<>>, ret |-> Pending]

Request(fn, args) == [fn |-> fn, args |-> args, ret |-> Pending]

Requests ==
    {Request("calculate_lift_coefficient", <<a, f>>) :
        a \in AnglesOfAttack, f \in FlapAngles}
    \cup {Request("calculate_lift", <<v, c>>) : v \in Velocities, c \in LiftCoefficients}
    \cup {Request("calculate_drag_coefficient", <<c>>) : c \in LiftCoefficients}
    \cup {Request("calculate_drag", <<v, c>>) : v \in Velocities, c \in DragCoefficients}
    \cup {Request("calculate_weight", <<>>)}
    \cup {Request("calculate_stall_speed_for_clean_configuration", <<>>)}
    \cup {Request("calculate_turn_radius", <<v, b>>) : v \in Velocities, b \in BankAngles}
    \cup {Request("calculate_load_factor", <<b>>) : b \in BankAngles}
    \cup {Request("takeoff_algorithm", <<v, h, a, f>>) :
            v \in Velocities, h \in Altitudes, a \in AnglesOfAttack, f \in FlapAngles}
    \cup {Request("landing_algorithm", <<v, h, t, a, f>>) :
            v \in Velocities, h \in Altitudes, t \in Thrusts,
            a \in {Float(2, 0), Float(10, 0)}, f \in FlapAngles}
    \cup {Request("stall_algorithm", <<v, a, b, f>>) :
            v \in Velocities, a \in AnglesOfAttack, b \in BankAngles, f \in FlapAngles}
    \cup {Request("inflight_algorithm", <<v, h, a, f, g, t>>) :
            v \in {Float(50, 0), Float(80, 0)}, h \in AltitudesNearTarget,
            a \in {Float(2, 0), Float(10, 0)}, f \in FlapAngles,
            g \in TargetAltitudes, t \in {Float(0, 0), Float(12000, 0)}}
    \cup {Request("turn_algorithm", <<v, b>>) : v \in Velocities, b \in BankAngles}
    \cup {Request("altitude_hold_algorithm", <<h, g, k>>) :
            h \in AltitudesNearTarget, g \in TargetAltitudes, k \in Gains}

\* flight_gui.state as the module sets it.
InitialState ==
    [time_seconds |-> Float(0, 0),
     velocity_mps |-> Float(70, 0),
     altitude_m |-> Float(500, 0),
     angle_of_attack_deg |-> Float(2, 0),
     flap_angle_deg |-> Float(0, 0),
     bank_angle_deg |-> Float(0, 0),
     thrust_newtons |-> Float(10000, 0),
     target_altitude_m |-> Float(2000, 0)]

None == [none |-> TRUE]

NoResults ==
    [takeoff |-> None, landing |-> None, stall |-> None,
     inflight |-> None, turn |-> None, altitude_hold |-> None]

Init ==
    /\ module = FlightPhysics
    /\ state = InitialState
    /\ results = NoResults
    /\ pc = "scheduled"
    /\ call \in Requests

Call_calculate_lift_coefficient ==
    /\ call.fn = "calculate_lift_coefficient"
    /\ call.ret = Pending
    /\ call' = [call EXCEPT !.ret =
                    calculate_lift_coefficient(call.args[1], call.args[2])]
    /\ UNCHANGED <<module, state, results, pc>>

Call_calculate_lift ==
    /\ call.fn = "calculate_lift"
    /\ call.ret = Pending
    /\ call' = [call EXCEPT !.ret =
                    calculate_lift(call.args[1], call.args[2])]
    /\ UNCHANGED <<module, state, results, pc>>

Call_calculate_drag_coefficient ==
    /\ call.fn = "calculate_drag_coefficient"
    /\ call.ret = Pending
    /\ call' = [call EXCEPT !.ret =
                    calculate_drag_coefficient(call.args[1])]
    /\ UNCHANGED <<module, state, results, pc>>

Call_calculate_drag ==
    /\ call.fn = "calculate_drag"
    /\ call.ret = Pending
    /\ call' = [call EXCEPT !.ret =
                    calculate_drag(call.args[1], call.args[2])]
    /\ UNCHANGED <<module, state, results, pc>>

Call_calculate_weight ==
    /\ call.fn = "calculate_weight"
    /\ call.ret = Pending
    /\ call' = [call EXCEPT !.ret =
                    calculate_weight]
    /\ UNCHANGED <<module, state, results, pc>>

Call_calculate_stall_speed_for_clean_configuration ==
    /\ call.fn = "calculate_stall_speed_for_clean_configuration"
    /\ call.ret = Pending
    /\ call' = [call EXCEPT !.ret =
                    calculate_stall_speed_for_clean_configuration]
    /\ UNCHANGED <<module, state, results, pc>>

Call_calculate_turn_radius ==
    /\ call.fn = "calculate_turn_radius"
    /\ call.ret = Pending
    /\ call' = [call EXCEPT !.ret =
                    calculate_turn_radius(call.args[1], call.args[2])]
    /\ UNCHANGED <<module, state, results, pc>>

Call_calculate_load_factor ==
    /\ call.fn = "calculate_load_factor"
    /\ call.ret = Pending
    /\ call' = [call EXCEPT !.ret =
                    calculate_load_factor(call.args[1])]
    /\ UNCHANGED <<module, state, results, pc>>

Call_takeoff_algorithm ==
    /\ call.fn = "takeoff_algorithm"
    /\ call.ret = Pending
    /\ call' = [call EXCEPT !.ret =
                    takeoff_algorithm(call.args[1], call.args[2], call.args[3], call.args[4])]
    /\ UNCHANGED <<module, state, results, pc>>

Call_landing_algorithm ==
    /\ call.fn = "landing_algorithm"
    /\ call.ret = Pending
    /\ call' = [call EXCEPT !.ret =
                    landing_algorithm(call.args[1], call.args[2], call.args[3], call.args[4], call.args[5])]
    /\ UNCHANGED <<module, state, results, pc>>

Call_stall_algorithm ==
    /\ call.fn = "stall_algorithm"
    /\ call.ret = Pending
    /\ call' = [call EXCEPT !.ret =
                    stall_algorithm(call.args[1], call.args[2], call.args[3], call.args[4])]
    /\ UNCHANGED <<module, state, results, pc>>

Call_inflight_algorithm ==
    /\ call.fn = "inflight_algorithm"
    /\ call.ret = Pending
    /\ call' = [call EXCEPT !.ret =
                    inflight_algorithm(call.args[1], call.args[2], call.args[3], call.args[4], call.args[5], call.args[6])]
    /\ UNCHANGED <<module, state, results, pc>>

Call_turn_algorithm ==
    /\ call.fn = "turn_algorithm"
    /\ call.ret = Pending
    /\ call' = [call EXCEPT !.ret =
                    turn_algorithm(call.args[1], call.args[2])]
    /\ UNCHANGED <<module, state, results, pc>>

Call_altitude_hold_algorithm ==
    /\ call.fn = "altitude_hold_algorithm"
    /\ call.ret = Pending
    /\ call' = [call EXCEPT !.ret =
                    altitude_hold_algorithm(call.args[1], call.args[2], call.args[3])]
    /\ UNCHANGED <<module, state, results, pc>>

Next ==
    \/ Call_calculate_lift_coefficient
    \/ Call_calculate_lift
    \/ Call_calculate_drag_coefficient
    \/ Call_calculate_drag
    \/ Call_calculate_weight
    \/ Call_calculate_stall_speed_for_clean_configuration
    \/ Call_calculate_turn_radius
    \/ Call_calculate_load_factor
    \/ Call_takeoff_algorithm
    \/ Call_landing_algorithm
    \/ Call_stall_algorithm
    \/ Call_inflight_algorithm
    \/ Call_turn_algorithm
    \/ Call_altitude_hold_algorithm

Spec == Init /\ [][Next]_vars

---------------------------------------------------------------------------
(* flight_gui.py: the refresh loop *)

UPDATE_INTERVAL_MS == 1000

\* Ticks after which the model stops the loop.
MaxTicks == 120

\* Ticks of the loop when the calls of a tick are taken one by one.
MaxCallTicks == 2

\* random.uniform(lo, hi): one of the two ends of the interval.
random_uniform(lo, hi) == {lo, hi}

\* state["time_seconds"] += UPDATE_INTERVAL_MS / 1000.0
AdvanceTime(s) ==
    [s EXCEPT !.time_seconds =
                  Add(@, TrueDiv(Float(UPDATE_INTERVAL_MS, 0), Float(1000, 0)))]

\* velocity, altitude and angle of attack at t = s.time_seconds, with their noise.
SimulateKinematics(s, noise_v, noise_h, noise_a) ==
    [s EXCEPT
        !.velocity_mps =
            max(Float(0, 0),
                Add(Add(Float(60, 0),
                        Mul(Float(20, 0),
                            math_sin(TrueDiv(s.time_seconds, Float(10, 0))))),
                    noise_v)),
        !.altitude_m =
            max(Float(0, 0),
                Add(Add(Float(400, 0),
                        Mul(Float(200, 0),
                            math_sin(TrueDiv(s.time_seconds, Float(18, 0))))),
                    noise_h)),
        !.angle_of_attack_deg =
            max(Float(-5, 0),
                min(Float(15, 0),
                    Add(Add(Float(2, 0),
                            Mul(Float(3, 0),
                                math_sin(TrueDiv(s.time_seconds, Float(8, 0))))),
                        noise_a)))]

SimulateFlaps(s) ==
    [s EXCEPT !.flap_angle_deg =
                  IF Lt(s.altitude_m, Float(50, 0)) THEN Float(10, 0) ELSE Float(0, 0)]

SimulateBankAndThrust(s) ==
    [s EXCEPT
        !.bank_angle_deg =
            Mul(Float(12, 0), math_sin(TrueDiv(s.time_seconds, Float(7, 0)))),
        !.thrust_newtons =
            Add(Float(12000, 0),
                Mul(Float(1500, 0), math_sin(TrueDiv(s.time_seconds, Float(12, 0)))))]

\* The state after the simulation lines of update_display.
Simulate(s, noise_v, noise_h, noise_a) ==
    SimulateBankAndThrust(
        SimulateFlaps(SimulateKinematics(AdvanceTime(s), noise_v, noise_h, noise_a)))

\* A call that raises ends update_display: the calls after it are not made.
InSourceOrder(r) ==
    [r EXCEPT
        !.inflight = IF IsException(r.stall) THEN None ELSE @,
        !.turn = IF IsException(r.stall) THEN None ELSE @,
        !.altitude_hold =
            IF IsException(r.stall) \/ IsException(r.turn) THEN None ELSE @]

\* The six calls of update_display on the parameter set s.
RunAlgorithms(s) ==
    InSourceOrder(
        [takeoff |-> takeoff_algorithm(s.velocity_mps, s.altitude_m,
                                       s.angle_of_attack_deg, s.flap_angle_deg),
         landing |-> landing_algorithm(s.velocity_mps, s.altitude_m, s.thrust_newtons,
                                       s.angle_of_attack_deg, s.flap_angle_deg),
         stall |-> stall_algorithm(s.velocity_mps, s.angle_of_attack_deg,
                                   s.bank_angle_deg, s.flap_angle_deg),
         inflight |-> inflight_algorithm(s.velocity_mps, s.altitude_m,
                                         s.angle_of_attack_deg, s.flap_angle_deg,
                                         s.target_altitude_m, s.thrust_newtons),
         turn |-> turn_algorithm(s.velocity_mps, s.bank_angle_deg),
         altitude_hold |-> altitude_hold_algorithm(s.altitude_m, s.target_altitude_m,
                                                   Float(4, -1))])

Raised(r) == \E k \in DOMAIN r : IsException(r[k])

InitGui ==
    /\ module = FlightPhysics
    /\ state = InitialState
    /\ results = NoResults
    /\ pc = "scheduled"
    /\ call = NoCall

\* One run of the timer callback: simulate, run the six algorithms, show their
\* results, schedule the next run (which an exception leaves out).
update_display ==
    /\ pc = "scheduled"
    /\ Lt(state.time_seconds, Float(MaxTicks, 0))
    /\ \E noise_v \in random_uniform(Float(-2, 0), Float(2, 0)),
          noise_h \in random_uniform(Float(-5, 0), Float(5, 0)),
          noise_a \in random_uniform(Float(-5, -1), Float(5, -1)) :
            state' = Simulate(state, noise_v, noise_h, noise_a)
    /\ results' = RunAlgorithms(state')
    /\ pc' = IF Raised(results') THEN "stopped" ELSE "scheduled"
    /\ UNCHANGED <<module, call>>

NextGui == update_display

SpecGui == InitGui /\ [][NextGui]_vars

---------------------------------------------------------------------------
(* The refresh loop with the calls of a tick taken one by one: in any order *)
(* and any number of times, which covers the order of the source.           *)

Tick_simulate ==
    /\ pc = "scheduled"
    /\ Lt(state.time_seconds, Float(MaxCallTicks, 0))
    /\ \E noise_v \in random_uniform(Float(-2, 0), Float(2, 0)),
          noise_h \in random_uniform(Float(-5, 0), Float(5, 0)),
          noise_a \in random_uniform(Float(-5, -1), Float(5, -1)) :
            state' = Simulate(state, noise_v, noise_h, noise_a)
    /\ results' = NoResults
    /\ pc' = "running"
    /\ UNCHANGED <<module, call>>

Tick_takeoff_algorithm ==
    /\ pc = "running"
    /\ results' = [results EXCEPT !.takeoff =
                       takeoff_algorithm(state.velocity_mps, state.altitude_m,
                                         state.angle_of_attack_deg, state.flap_angle_deg)]
    /\ UNCHANGED <<module, state, pc, call>>

Tick_landing_algorithm ==
    /\ pc = "running"
    /\ results' = [results EXCEPT !.landing =
                       landing_algorithm(state.velocity_mps, state.altitude_m,
                                         state.thrust_newtons, state.angle_of_attack_deg,
                                         state.flap_angle_deg)]
    /\ UNCHANGED <<module, state, pc, call>>

Tick_stall_algorithm ==
    /\ pc = "running"
    /\ results' = [results EXCEPT !.stall =
                       stall_algorithm(state.velocity_mps, state.angle_of_attack_deg,
                                       state.bank_angle_deg, state.flap_angle_deg)]
    /\ UNCHANGED <<module, state, pc, call>>

Tick_inflight_algorithm ==
    /\ pc = "running"
    /\ results' = [results EXCEPT !.inflight =
                       inflight_algorithm(state.velocity_mps, state.altitude_m,
                                          state.angle_of_attack_deg, state.flap_angle_deg,
                                          state.target_altitude_m, state.thrust_newtons)]
    /\ UNCHANGED <<module, state, pc, call>>

Tick_turn_algorithm ==
    /\ pc = "running"
    /\ results' = [results EXCEPT !.turn =
                       turn_algorithm(state.velocity_mps, state.bank_angle_deg)]
    /\ UNCHANGED <<module, state, pc, call>>

\* Mutant: the call applies its commanded climb rate to the altitude of the state.
Tick_altitude_hold_applies_command ==
    /\ pc = "running"
    /\ results' = [results EXCEPT !.altitude_hold =
                       altitude_hold_algorithm(state.altitude_m, state.target_altitude_m,
                                               Float(4, -1))]
    /\ state' = [state EXCEPT !.altitude_m =
                     Add(@, results'.altitude_hold.commanded_climb_rate_mps)]
    /\ UNCHANGED <<module, pc, call>>

Tick_altitude_hold_algorithm ==
    /\ pc = "running"
    /\ results' = [results EXCEPT !.altitude_hold =
                       altitude_hold_algorithm(state.altitude_m, state.target_altitude_m,
                                               Float(4, -1))]
    /\ UNCHANGED <<module, state, pc, call>>

\* The labels are set and the next run is scheduled once all six calls returned.
Tick_schedule ==
    /\ pc = "running"
    /\ \A k \in DOMAIN results : results[k] # None /\ ~IsException(results[k])
    /\ pc' = "scheduled"
    /\ UNCHANGED <<module, state, results, call>>

NextTick ==
    \/ Tick_simulate
    \/ Tick_takeoff_algorithm
    \/ Tick_landing_algorithm
    \/ Tick_stall_algorithm
    \/ Tick_inflight_algorithm
    \/ Tick_turn_algorithm
    \/ Tick_altitude_hold_algorithm
    \/ Tick_schedule

SpecTick == InitGui /\ [][NextTick]_vars

---------------------------------------------------------------------------
(* Claims *)

Returned(fn) == call.fn = fn /\ call.ret # Pending

\* C1 (as claimed): every call of a primitive or of a classifier returns a value and
\* never raises, whatever the numeric input.
C1_NeverRaises == call.ret # Pending => ~IsException(call.ret)

\* C2 (as claimed): for every angle of attack >= 15 degrees stall_algorithm returns
\* stall = true, for every velocity, bank angle and flap angle.
C2_StallAtHighAngleOfAttack ==
    (Returned("stall_algorithm") /\ Ge(call.args[2], Float(15, 0)))
        => (~IsException(call.ret) /\ call.ret.stall = TRUE)

\* v^2 / (g * tan(bank))
TurnRadiusFormula(v, bank) ==
    TrueDiv(Mul(v, v), Mul(FlightPhysics.GRAVITY, math_tan(math_radians(bank))))

\* The radius has the sign of the bank angle (stated for a moving aircraft banked by
\* less than 90 degrees, where tan(bank) has the sign of bank).
KeepsSignOfBank(radius, v, bank) ==
    (v.m # 0 /\ Lt(abs(bank), Float(90, 0))) => IntSign(radius.m) = IntSign(bank.m)

\* C3 (as claimed): calculate_turn_radius(v, 0) is infinite, and for every bank angle
\* other than 0, however small, it is v^2 / (g * tan(bank)) with the sign of the bank.
C3_FormulaForEveryNonzeroBank ==
    Returned("calculate_turn_radius") =>
        IF call.args[2].m = 0
        THEN IsInf(call.ret)
        ELSE /\ call.ret = TurnRadiusFormula(call.args[1], call.args[2])
             /\ KeepsSignOfBank(call.ret, call.args[1], call.args[2])

\* C3 (amended): calculate_turn_radius(v, bank) is infinite whenever |bank| < 1e-6,
\* and for |bank| >= 1e-6 it is v^2 / (g * tan(bank)) with the sign of the bank.
C3_TurnRadius ==
    Returned("calculate_turn_radius") =>
        IF Lt(abs(call.args[2]), Float(1, -6))
        THEN IsInf(call.ret)
        ELSE /\ ~IsInf(call.ret)
             /\ call.ret = TurnRadiusFormula(call.args[1], call.args[2])
             /\ KeepsSignOfBank(call.ret, call.args[1], call.args[2])

\* C3 witness: a nonzero bank angle below 1e-6 has given an infinite radius, and a
\* left bank of 12 degrees a negative one.
C3_Witness ==
    /\ Returned("calculate_turn_radius")
    /\ \/ call.args[2] = Float(5, -7) /\ IsInf(call.ret)
       \/ call.args[2] = Float(-12, 0) /\ call.args[1] = Float(70, 0) /\ call.ret.m < 0

InEnvelope(a) == Ge(a, Float(-5, 0)) /\ Le(a, Float(15, 0))

\* C4 (as claimed): for angles of attack a1 < a2 within -5..15 degrees, the lift
\* coefficient and the lift force of a1 are strictly smaller than those of a2, for
\* every flap angle and every velocity, 0 included.
C4_StrictForEveryVelocity ==
    (Returned("takeoff_algorithm") /\ InEnvelope(call.args[3])) =>
        \A a2 \in AnglesOfAttack :
            (InEnvelope(a2) /\ Lt(call.args[3], a2)) =>
                /\ Lt(call.ret.lift_coefficient,
                      calculate_lift_coefficient(a2, call.args[4]))
                /\ Lt(call.ret.lift_newtons,
                      calculate_lift(call.args[1],
                                     calculate_lift_coefficient(a2, call.args[4])))

\* C4 (amended): for angles of attack a1 < a2 within -5..15 degrees the lift
\* coefficient of a1 is strictly smaller than that of a2; the lift force is strictly
\* smaller for every velocity other than 0, and at velocity 0 both lift forces are 0.
C4_Monotonic ==
    (Returned("takeoff_algorithm") /\ InEnvelope(call.args[3])) =>
        \A a2 \in AnglesOfAttack :
            (InEnvelope(a2) /\ Lt(call.args[3], a2)) =>
                /\ Lt(call.ret.lift_coefficient,
                      calculate_lift_coefficient(a2, call.args[4]))
                /\ IF call.args[1].m # 0
                   THEN Lt(call.ret.lift_newtons,
                           calculate_lift(call.args[1],
                                          calculate_lift_coefficient(a2, call.args[4])))
                   ELSE /\ call.ret.lift_newtons = Zero
                        /\ calculate_lift(call.args[1],
                                          calculate_lift_coefficient(a2, call.args[4]))
                               = Zero

\* C4 witness: the lift of an angle of attack just below 15 degrees has been computed,
\* once in motion and once at rest.
C4_Witness ==
    /\ Returned("takeoff_algorithm")
    /\ call.args[3] = Float(149, -1)
    /\ call.args[1] \in {Float(70, 0), Float(0, 0)}

\* C5: altitude_hold_algorithm commands HOLD exactly when |target - altitude| <= 2,
\* for every gain; the commanded climb rate lies in [-10, 10]; altitude 1000, target
\* 2000, gain 0.4 give CLIMB at exactly 10.0.
C5_AltitudeHold ==
    Returned("altitude_hold_algorithm") =>
        /\ call.ret.command = "HOLD"
              <=> Le(abs(Sub(call.args[2], call.args[1])), Float(2, 0))
        /\ Ge(call.ret.commanded_climb_rate_mps, Float(-10, 0))
        /\ Le(call.ret.commanded_climb_rate_mps, Float(10, 0))
        /\ (call.args = <<Float(1000, 0), Float(2000, 0), Float(4, -1)>>) =>
              /\ call.ret.command = "CLIMB"
              /\ call.ret.commanded_climb_rate_mps = Float(10, 0)

\* C5 witness: the scenario call has returned CLIMB with the rate clamped to 10.
C5_Witness ==
    /\ Returned("altitude_hold_algorithm")
    /\ call.args = <<Float(1000, 0), Float(2000, 0), Float(4, -1)>>
    /\ call.ret.command = "CLIMB"
    /\ call.ret.altitude_error_m = Float(1000, 0)

LandingLabel(approach, final, touchdown) ==
    IF touchdown THEN "TOUCHDOWN"
    ELSE IF final THEN "FINAL"
    ELSE IF approach THEN "APPROACH"
    ELSE "NOT LANDING"

\* C6: landing_algorithm returns TOUCHDOWN when final and drag >= thrust, else FINAL
\* when final (altitude <= 10 and velocity <= 16.7), else APPROACH when altitude < 200
\* and velocity < 55, else NOT LANDING; so FINAL is returned only when drag < thrust.
C6_LandingPriority ==
    Returned("landing_algorithm") =>
        /\ call.ret.status =
              LandingLabel(
                  Lt(call.args[2], Float(200, 0)) /\ Lt(call.args[1], Float(55, 0)),
                  Le(call.args[2], Float(10, 0)) /\ Le(call.args[1], Float(167, -1)),
                  /\ Le(call.args[2], Float(10, 0))
                  /\ Le(call.args[1], Float(167, -1))
                  /\ Ge(call.ret.drag_newtons, call.args[3]))
        /\ call.ret.status = "FINAL" => Lt(call.ret.drag_newtons, call.args[3])
        /\ call.ret.thrust_newtons = call.args[3]

\* C6 witness: a call in the final zone with thrust above drag has returned FINAL.
C6_Witness ==
    /\ Returned("landing_algorithm")
    /\ call.ret.status = "FINAL"
    /\ call.args[1] = Float(167, -1)
    /\ call.args[2] = Float(10, 0)

\* 0.5 * rho * v^2 * S * (CL0 + CLalpha * aoa + 0.01 * flap)
LiftFormula(v, aoa, flap) ==
    Mul(Mul(Mul(Mul(Float(5, -1), FlightPhysics.AIR_DENSITY), Mul(v, v)),
            FlightPhysics.WING_AREA),
        Add(Add(FlightPhysics.LIFT_COEFFICIENT_ZERO,
                Mul(FlightPhysics.LIFT_COEFFICIENT_ALPHA, aoa)),
            Mul(Float(1, -2), flap)))

TakeoffLabel(lift, weight, altitude) ==
    IF Ge(lift, weight) /\ Gt(altitude, Float(1, -1)) THEN "AIRBORNE"
    ELSE IF Ge(lift, weight) THEN "TAKEOFF READY (ROTATE)"
    ELSE "ROLLING"

\* C7: takeoff_algorithm returns AIRBORNE exactly when lift >= weight and altitude >
\* 0.1, TAKEOFF READY (ROTATE) exactly when lift >= weight and altitude <= 0.1, and
\* ROLLING exactly when lift < weight; v = 70, altitude 0, aoa 2, flap 0 give ROLLING.
C7_Takeoff ==
    Returned("takeoff_algorithm") =>
        /\ call.ret.lift_newtons = LiftFormula(call.args[1], call.args[3], call.args[4])
        /\ call.ret.weight_newtons = Float(49050, 0)
        /\ call.ret.status =
              TakeoffLabel(call.ret.lift_newtons, call.ret.weight_newtons, call.args[2])
        /\ (call.args = <<Float(70, 0), Float(0, 0), Float(2, 0), Float(0, 0)>>) =>
              call.ret.status = "ROLLING"

\* C7 witness: with enough lift a call at altitude 0.1 has returned TAKEOFF READY.
C7_Witness ==
    /\ Returned("takeoff_algorithm")
    /\ call.args[2] = Float(1, -1)
    /\ call.ret.status = "TAKEOFF READY (ROTATE)"

InflightLabel(lift, weight, altitude, target) ==
    IF Lt(lift, weight) /\ Lt(altitude, Sub(target, Float(5, 0))) THEN "CLIMB"
    ELSE IF Gt(lift, weight) /\ Gt(altitude, Add(target, Float(5, 0))) THEN "DESCEND"
    ELSE "CRUISE"

\* C8: inflight_algorithm returns CLIMB exactly when lift < weight and altitude <
\* target - 5, DESCEND exactly when lift > weight and altitude > target + 5, CRUISE
\* otherwise (so within 5 m of the target always); the thrust does not change the mode.
C8_Inflight ==
    Returned("inflight_algorithm") =>
        /\ call.ret.lift_newtons = LiftFormula(call.args[1], call.args[3], call.args[4])
        /\ call.ret.mode =
              InflightLabel(call.ret.lift_newtons, Float(49050, 0), call.args[2],
                            call.args[5])
        /\ Le(abs(Sub(call.args[2], call.args[5])), Float(5, 0))
              => call.ret.mode = "CRUISE"
        /\ \A t \in Thrusts :
              inflight_algorithm(call.args[1], call.args[2], call.args[3], call.args[4],
                                 call.args[5], t).mode = call.ret.mode

\* C8 witness: 4 m below the target with too little lift, the mode returned is CRUISE.
C8_Witness ==
    /\ Returned("inflight_algorithm")
    /\ call.args[2] = Float(996, 0)
    /\ call.args[5] = Float(1000, 0)
    /\ Lt(call.ret.lift_newtons, call.ret.weight_newtons)
    /\ call.ret.mode = "CRUISE"

\* C9: a classifier call of a tick changes neither the parameter set nor the aircraft
\* constants nor the result of another classifier, and a classifier called again in
\* the tick, after any of the others, returns what it returned before: the six
\* results do not depend on the order of the calls or on earlier results.
C9_Stateless ==
    [][(pc = "running" /\ pc' = "running") =>
          /\ state' = state
          /\ module' = module
          /\ \A k \in DOMAIN results : results[k] # None => results'[k] = results[k]]_vars

\* C9 witness: in the second tick all six classifiers have returned.
C9_Witness ==
    /\ pc = "running"
    /\ state.time_seconds = Float(2, 0)
    /\ \A k \in DOMAIN results : results[k] # None

\* C10: after any number of ticks velocity >= 0, 0 <= altitude <= 605, -5 <= angle of
\* attack <= 15, the flap angle is 10 exactly when altitude < 50 and else 0, the target
\* altitude is 2000; the altitude-hold command is CLIMB at 10.0 and the in-flight mode
\* is never DESCEND.
C10_GuiEnvelope ==
    /\ Ge(state.velocity_mps, Float(0, 0))
    /\ Ge(state.altitude_m, Float(0, 0))
    /\ Le(state.altitude_m, Float(605, 0))
    /\ InEnvelope(state.angle_of_attack_deg)
    /\ state.flap_angle_deg =
          IF Lt(state.altitude_m, Float(50, 0)) THEN Float(10, 0) ELSE Float(0, 0)
    /\ state.target_altitude_m = Float(2000, 0)
    /\ results # NoResults =>
          /\ results.altitude_hold.command = "CLIMB"
          /\ results.altitude_hold.commanded_climb_rate_mps = Float(10, 0)
          /\ results.inflight.mode # "DESCEND"

\* C10 witness: a tick near the crest of the altitude wave has run all six algorithms.
C10_Witness ==
    /\ results # NoResults
    /\ Ge(state.altitude_m, Float(600, 0))
    /\ results.altitude_hold.command = "CLIMB"
    /\ results.inflight.mode = "CLIMB"

===========================================================================
